---- MODULE Spec2Model ----
(***************************************************************************)
(* A model of tools/bin/package_application.py: the packaging pipeline     *)
(* that cleans METADATA and byte code, builds and signs the manifest and   *)
(* packs the application directory into <app_name>.tar.gz.                 *)
(*                                                                         *)
(* The application root is a tree of files addressed by their root-        *)
(* relative path, a tuple of names.  package_application is called, as     *)
(* make.py does, from the directory that holds the application directory,  *)
(* so the .tar and .tar.gz it writes lie outside the tree it walks.        *)
(* Python strings are TLA+ strings; Chars gives their characters and Ord   *)
(* their code points, so that prefix, suffix and regular-expression tests  *)
(* and the encoding to bytes are computed on the characters.               *)
(***************************************************************************)
EXTENDS Integers, Sequences, FiniteSets, Bags, TLC

VARIABLES pc, err, ini, pkey, idx, fs, dirs, app, tmp, temp_files, cwd, created, start

vars == <<pc, err, ini, pkey, idx, fs, dirs, app, tmp, temp_files, cwd, created, start>>

\* ---------------------------------------------------------------- bounds
\* Longest content of a text file of the initial tree.
MaxLen == 2

\* Most files the initial tree holds besides package.ini and METADATA.
MaxFiles == 1

\* Most sections of the descriptor.
MaxSections == 2

\* ------------------------------------------------------ program constants
META_DATA_FOLDER == "METADATA"

CONFIG_FILE == "package.ini"

SIGNATURE_FILE == "SIGNATURE.DS"

MANIFEST_FILE == "MANIFEST.json"

\* b'\r'
CR == 13

\* ---------------------------------------------------------------- strings
\* The characters of each string the model uses.
Chars(s) ==
  CASE s = "package.ini" -> <<"p", "a", "c", "k", "a", "g", "e", ".", "i", "n", "i">>
  [] s = "a.py" -> <<"a", ".", "p", "y">>
  [] s = "b.txt" -> <<"b", ".", "t", "x", "t">>
  [] s = "m.pyc" -> <<"m", ".", "p", "y", "c">>
  [] s = "__pycache__" -> <<"_", "_", "p", "y", "c", "a", "c", "h", "e", "_", "_">>
  [] s = ".hid" -> <<".", "h", "i", "d">>
  [] s = "sub" -> <<"s", "u", "b">>
  [] s = "f.sh" -> <<"f", ".", "s", "h">>
  [] s = ".env" -> <<".", "e", "n", "v">>
  [] s = "METADATA" -> <<"M", "E", "T", "A", "D", "A", "T", "A">>
  [] s = "old" -> <<"o", "l", "d">>
  [] s = "d" -> <<"d">>
  [] s = "x" -> <<"x">>
  [] s = "MANIFEST.json" -> <<"M", "A", "N", "I", "F", "E", "S", "T", ".", "j", "s", "o", "n">>
  [] s = "SIGNATURE.DS" -> <<"S", "I", "G", "N", "A", "T", "U", "R", "E", ".", "D", "S">>
  [] s = "app" -> <<"a", "p", "p">>
  [] s = "foo" -> <<"f", "o", "o">>
  [] s = "Acme" -> <<"A", "c", "m", "e">>
  [] s = "test" -> <<"t", "e", "s", "t">>
  [] s = "u0" -> <<"u", "0">>
  [] s = "u1" -> <<"u", "1">>
  [] s = "u2" -> <<"u", "2">>
  [] s = "t1" -> <<"t", "1">>
  [] s = "t2" -> <<"t", "2">>
  [] s = "1" -> <<"1">>
  [] s = "0" -> <<"0">>
  [] s = "7" -> <<"7">>
  [] s = "true" -> <<"t", "r", "u", "e">>
  [] s = "false" -> <<"f", "a", "l", "s", "e">>
  [] s = "null" -> <<"n", "u", "l", "l">>
  [] s = "uuid" -> <<"u", "u", "i", "d">>
  [] s = "vendor" -> <<"v", "e", "n", "d", "o", "r">>
  [] s = "notes" -> <<"n", "o", "t", "e", "s">>
  [] s = "version_major" -> <<"v", "e", "r", "s", "i", "o", "n", "_", "m", "a", "j", "o", "r">>
  [] s = "version_minor" -> <<"v", "e", "r", "s", "i", "o", "n", "_", "m", "i", "n", "o", "r">>
  [] s = "version_patch" -> <<"v", "e", "r", "s", "i", "o", "n", "_", "p", "a", "t", "c", "h">>
  [] s = "firmware_major" -> <<"f", "i", "r", "m", "w", "a", "r", "e", "_", "m", "a", "j", "o", "r">>
  [] s = "firmware_minor" -> <<"f", "i", "r", "m", "w", "a", "r", "e", "_", "m", "i", "n", "o", "r">>
  [] s = "restart" -> <<"r", "e", "s", "t", "a", "r", "t">>
  [] s = "reboot" -> <<"r", "e", "b", "o", "o", "t">>
  [] s = "date" -> <<"d", "a", "t", "e">>
  [] s = "auto_start" -> <<"a", "u", "t", "o", "_", "s", "t", "a", "r", "t">>
  [] s = "app_type" -> <<"a", "p", "p", "_", "t", "y", "p", "e">>
  [] s = "name" -> <<"n", "a", "m", "e">>
  [] s = "files" -> <<"f", "i", "l", "e", "s">>
  [] s = "pmf" -> <<"p", "m", "f">>
  [] s = "tar" -> <<"t", "a", "r">>
  [] s = "tar.gz" -> <<"t", "a", "r", ".", "g", "z">>
  [] s = "pkey" -> <<"p", "k", "e", "y">>
  [] s = "stale" -> <<"s", "t", "a", "l", "e">>

\* F applied to the value of x: x is evaluated once, before F uses it.
Eager(x, F(_)) == CHOOSE r \in {F(v) : v \in {x}} : TRUE

\* ord(): the code point of a character.
OrdTable ==
  "\n" :> 10 @@ " " :> 32 @@ "\"" :> 34 @@ "," :> 44 @@ "." :> 46 @@ "/" :> 47 @@ "0" :> 48 @@ "1" :> 49 @@ "2" :> 50 @@
  "3" :> 51 @@ "4" :> 52 @@ "5" :> 53 @@ "6" :> 54 @@ "7" :> 55 @@ "8" :> 56 @@ "9" :> 57 @@ ":" :> 58 @@
  "A" :> 65 @@ "D" :> 68 @@ "E" :> 69 @@ "F" :> 70 @@ "G" :> 71 @@ "I" :> 73 @@ "M" :> 77 @@ "N" :> 78 @@
  "R" :> 82 @@ "S" :> 83 @@ "T" :> 84 @@ "U" :> 85 @@ "_" :> 95 @@ "a" :> 97 @@ "b" :> 98 @@ "c" :> 99 @@
  "d" :> 100 @@ "e" :> 101 @@ "f" :> 102 @@ "g" :> 103 @@ "h" :> 104 @@ "i" :> 105 @@ "j" :> 106 @@ "k" :> 107 @@
  "l" :> 108 @@ "m" :> 109 @@ "n" :> 110 @@ "o" :> 111 @@ "p" :> 112 @@ "r" :> 114 @@ "s" :> 115 @@ "t" :> 116 @@
  "u" :> 117 @@ "v" :> 118 @@ "w" :> 119 @@ "x" :> 120 @@ "y" :> 121 @@ "z" :> 122 @@ "{" :> 123 @@ "}" :> 125

Ord(c) == OrdTable[c]

\* str.encode('utf-8') of a sequence of ASCII characters.
Encode(cs) == Eager(cs, LAMBDA v : [i \in 1..Len(v) |-> Ord(v[i])])

\* str.startswith / str.endswith on character sequences.
StartsWith(cs, pre) ==
  Len(cs) >= Len(pre) /\ SubSeq(cs, 1, Len(pre)) = pre

EndsWith(cs, suf) ==
  Len(cs) >= Len(suf) /\ SubSeq(cs, Len(cs) - Len(suf) + 1, Len(cs)) = suf

\* ------------------------------------------------------------ file names
\* BYTE_CODE_FILES = re.compile(r'^.*/.(pyc|pyo|pyd)$'), used with match()
\* on a bare file name: any prefix, then a slash, then any one character,
\* then pyc, pyo or pyd up to the end of the name.
BYTE_CODE_FILES(x) ==
  LET c == Chars(x)
      n == Len(c)
  IN  /\ n >= 5
      /\ c[n - 4] = "/"
      /\ c[n - 3] # "\n"
      /\ SubSeq(c, n - 2, n) \in {<<"p", "y", "c">>, <<"p", "y", "o">>, <<"p", "y", "d">>}

\* BYTE_CODE_FOLDERS = re.compile('^(__pycache__)$')
BYTE_CODE_FOLDERS(x) == Chars(x) = Chars("__pycache__")

\* scanfiles = ('.py', '.sh'); fl.endswith(scanfiles)
IsScanFile(fl) ==
  \/ EndsWith(Chars(fl), <<".", "p", "y">>)
  \/ EndsWith(Chars(fl), <<".", "s", "h">>)

\* fl.startswith('.')
IsHidden(x) == StartsWith(Chars(x), <<".">>)

\* ---------------------------------------------------------------- paths
\* os.path.basename(app_root): the name of the application directory.
BaseName == "app"

Parent(p) == SubSeq(p, 1, Len(p) - 1)

\* The last component of a root-relative path of a file.
FileName(p) == p[Len(p)]

\* os.path.basename(path) of a directory of the walk; the root's is BaseName.
DirBaseName(d) == IF d = <<>> THEN BaseName ELSE d[Len(d)]

\* p lies, at any depth, beneath the directory d.
IsUnder(p, d) == Len(p) > Len(d) /\ SubSeq(p, 1, Len(d)) = d

app_metadata_folder == <<META_DATA_FOLDER>>

app_manifest_file == <<META_DATA_FOLDER, MANIFEST_FILE>>

app_signature_file == <<META_DATA_FOLDER, SIGNATURE_FILE>>

app_config_file == <<CONFIG_FILE>>

\* The characters of a root-relative path, components joined by '/'.
RECURSIVE PathChars(_)
PathChars(p) ==
  IF Len(p) = 1 THEN Chars(p[1])
  ELSE Chars(p[1]) \o <<"/">> \o PathChars(Tail(p))

\* --------------------------------------------------------------- hashing
\* hashlib.sha256 reduced to a 15-bit checksum of the bytes fed to
\* h.update(), each weighted by its position: the sum is the cardinality of
\* the bag that holds position i that many times.
HashFold(bs) == BagCardinality([i \in 1..Len(bs) |-> i * (bs[i] + 1)])

\* h.digest(): the raw digest bytes.
Digest(bs) ==
  Eager(Eager(bs, LAMBDA v : (5381 + HashFold(v)) % 32768),
        LAMBDA h : <<h \div 256, h % 256>>)

HexDigits ==
  <<"0", "1", "2", "3", "4", "5", "6", "7", "8", "9", "a", "b", "c", "d", "e", "f">>

\* bytes.hex(): two lower-case hexadecimal characters for each byte.
Hex(bs) ==
  [i \in 1..(2 * Len(bs)) |->
     LET b == bs[(i + 1) \div 2]
     IN  IF i % 2 = 1 THEN HexDigits[(b \div 16) + 1] ELSE HexDigits[(b % 16) + 1]]

\* file_checksum: h.hexdigest() of the bytes of the file, a str.
file_checksum(bs) == Hex(Digest(bs))

\* crypto.sign(pkey, checksum, 'sha256'): a keyed digest of the message.
CryptoSign(key, msg) == Digest(Encode(Chars(key)) \o msg)

\* ------------------------------------------------------------ descriptor
\* The options package_application reads with config[section][...]; a
\* missing one raises KeyError.  uuid is read first.
RequiredKeys ==
  <<"vendor", "notes", "version_major", "version_minor", "firmware_major", "firmware_minor">>

BoolKeys == {"restart", "reboot"}

OptionalKeys == {"version_patch", "auto_start", "app_type"}

\* The options of a complete descriptor section.
BaseKeys == {"uuid"} \cup {RequiredKeys[i] : i \in 1..Len(RequiredKeys)} \cup BoolKeys

\* The text of each option in package.ini.
OptionValue(k) ==
  CASE k = "uuid" -> "u0"
  [] k = "vendor" -> "Acme"
  [] k = "notes" -> "test"
  [] k \in {"version_major", "version_patch", "app_type"} -> "1"
  [] k \in {"version_minor", "firmware_minor"} -> "0"
  [] k = "firmware_major" -> "7"
  [] k \in {"restart", "auto_start"} -> "true"
  [] k = "reboot" -> "false"

\* A section of the parsed descriptor: its name and its options.
Section(n, K) == [name |-> n, opts |-> [k \in K |-> OptionValue(k)]]

\* int(text) of a decimal text.
RECURSIVE PyInt(_)
PyInt(cs) ==
  IF Len(cs) = 1 THEN Ord(cs[1]) - Ord("0")
  ELSE PyInt(SubSeq(cs, 1, Len(cs) - 1)) * 10 + (Ord(cs[Len(cs)]) - Ord("0"))

\* config[section].get(option, fallback)
GetOption(opts, k, fallback) == IF k \in DOMAIN opts THEN opts[k] ELSE fallback

\* config[section].getboolean(option): SectionProxy.get passes fallback=None
\* to the parser, so a missing option yields None instead of raising.
GetBoolean(opts, k) ==
  IF k \notin DOMAIN opts THEN "None"
  ELSE CASE opts[k] \in {"1", "yes", "true", "on"} -> "True"
       [] opts[k] \in {"0", "no", "false", "off"} -> "False"

\* uuid.uuid4() and datetime.datetime.now().isoformat() are inputs of a run.
Uuid4 == {"u1", "u2"}

Now == {"t1"}

\* ------------------------------------------------------------------ json
Digits == <<"0", "1", "2", "3", "4", "5", "6", "7", "8", "9">>

RECURSIVE IntStr(_)
IntStr(n) ==
  IF n < 10 THEN <<Digits[n + 1]>>
  ELSE IntStr(n \div 10) \o <<Digits[(n % 10) + 1]>>

Quote(cs) == <<"\"">> \o cs \o <<"\"">>

JsonBool(v) ==
  CASE v = "True" -> Chars("true")
  [] v = "False" -> Chars("false")
  [] v = "None" -> Chars("null")

\* Python's order on str: by code point, a proper prefix first.
RECURSIVE LessChars(_, _)
LessChars(a, b) ==
  IF a = <<>> THEN b # <<>>
  ELSE IF b = <<>> THEN FALSE
  ELSE IF Head(a) = Head(b) THEN LessChars(Tail(a), Tail(b))
  ELSE Ord(Head(a)) < Ord(Head(b))

\* sort_keys=True: the items [k, v] of a dict in the order of their keys.
SortItems(S) ==
  Eager(S, LAMBDA T :
    Eager({<<Cardinality({y \in T : LessChars(y.k, x.k)}) + 1, x>> : x \in T}, LAMBDA R :
      [i \in 1..Cardinality(R) |-> (CHOOSE r \in R : r[1] = i)[2]] \o <<>>))

Indent(level) == [i \in 1..(4 * level) |-> " "]

\* The lines of the items from the i-th on, separated by ",\n".
RECURSIVE JoinItems(_, _, _)
JoinItems(items, i, level) ==
  LET line == Indent(level) \o Quote(items[i].k) \o <<":", " ">> \o items[i].v
  IN  IF i = Len(items) THEN line
      ELSE line \o <<",", "\n">> \o JoinItems(items, i + 1, level)

\* json.dumps of a dict with indent=4, sort_keys=True; S holds its items
\* with the values already rendered.
JsonObject(S, level) ==
  Eager(SortItems(S), LAMBDA items :
    IF Len(items) = 0 THEN <<"{", "}">>
    ELSE <<"{", "\n">> \o JoinItems(items, 1, level + 1) \o <<"\n">>
           \o Indent(level) \o <<"}">>)

JsonFiles(files) ==
  JsonObject({[k |-> PathChars(p), v |-> Quote(files[p])] : p \in DOMAIN files}, 2)

JsonAppValue(k, v) ==
  CASE k \in {"name", "uuid", "vendor", "notes", "date"} -> Quote(Chars(v))
  [] k \in {"restart", "reboot", "auto_start"} -> JsonBool(v)
  [] k = "files" -> JsonFiles(v)
  [] OTHER -> IntStr(v)

\* pmf['version_major'] = int(1); pmf['version_minor'] = int(0)
pmf == [version_major |-> 1, version_minor |-> 0]

\* json.dumps(data, indent=4, sort_keys=True) for data = {pmf, app}.
JsonDumps(a) ==
  JsonObject(
    {[k |-> Chars("app"),
      v |-> JsonObject({[k |-> Chars(x), v |-> JsonAppValue(x, a[x])] : x \in DOMAIN a}, 1)],
     [k |-> Chars("pmf"),
      v |-> JsonObject({[k |-> Chars(x), v |-> IntStr(pmf[x])] : x \in DOMAIN pmf}, 1)]},
    0)

\* ------------------------------------------------------------ file tree
\* content.replace(b'\r', b'')
StripCR(bs) == SelectSeq(bs, LAMBDA b : b # CR)

\* b'\r' in content
HasCR(bs) == \E i \in 1..Len(bs) : bs[i] = CR

\* hash_dir: the digest of every file of the walk whose name does not start
\* with a dot and whose directory's base name does not start with a dot,
\* keyed by the path relative to the root.
hash_dir(files) ==
  [p \in {q \in DOMAIN files :
            ~IsHidden(FileName(q)) /\ ~IsHidden(DirBaseName(Parent(q)))}
     |-> file_checksum(files[p])]

\* tempfile.NamedTemporaryFile(delete=False).name: a fresh name for each file.
TempName(orig) == <<"tmp">> \o orig

\* scan_for_cr: the (original, temporary) pairs of the files with a scanned
\* extension that hold a carriage return.
scan_for_cr(files) ==
  {<<p, TempName(p)>> : p \in {q \in DOMAIN files : IsScanFile(FileName(q)) /\ HasCR(files[q])}}

\* The content scan_for_cr writes to each temporary file.
scan_for_cr_content(files) ==
  [t \in {TempName(p) : p \in {q \in DOMAIN files : IsScanFile(FileName(q)) /\ HasCR(files[q])}}
     |-> StripCR(files[Tail(t)])]

\* The directories clean_bytecode_files removes with shutil.rmtree: the walk
\* is top-down, so a directory is removed when one of its components matches.
RemovedDirs(ds) == {d \in ds : \E i \in 1..Len(d) : BYTE_CODE_FOLDERS(d[i])}

\* The files left by clean_bytecode_files.
clean_bytecode_files(files, ds) ==
  {p \in DOMAIN files :
     /\ ~BYTE_CODE_FILES(FileName(p))
     /\ \A d \in RemovedDirs(ds) : ~IsUnder(p, d)}

\* "{}.tar".format(app_name) and "{}.tar.gz".format(app_name), in the
\* working directory.
TarName(app_name) == <<app_name, "tar">>

GzipName(app_name) == <<app_name, "tar.gz">>

Restrict(f, S) == [x \in S |-> f[x]]

NoError == [type |-> "None", arg |-> ""]

Error(t, a) == [type |-> t, arg |-> a]

\* ---------------------------------------------------------- initial state
FileBytes == {CR, Ord("a")}

Contents == UNION {[1..n -> FileBytes] : n \in 0..MaxLen}

\* The file of the initial tree whose content varies.
TextFiles == {<<"a.py">>}

\* Its other files; f.sh and b.txt hold a carriage return.
OtherFiles ==
  {<<".hid", "sub", "f.sh">>, <<"b.txt">>, <<"m.pyc">>,
   <<"sub", "__pycache__", "m.pyc">>, <<".env">>}

StaleMetadata == {app_manifest_file, <<META_DATA_FOLDER, "d", "x">>}

\* The directories above the files of S.
DirsOf(S) == UNION {{SubSeq(p, 1, n) : n \in 1..(Len(p) - 1)} : p \in S}

\* The content of a file of the initial tree; c is that of the text files.
InitialContent(p, c) ==
  IF p \in TextFiles THEN c
  ELSE IF p = app_config_file THEN Encode(Chars(BaseName))
  ELSE IF p \in {<<"b.txt">>, <<".hid", "sub", "f.sh">>} THEN <<Ord("a"), CR>>
  ELSE <<Ord("a")>>

\* The options a descriptor section may hold: complete, short of one
\* option, or complete with the optional ones.
KeyChoices ==
  {BaseKeys} \cup {BaseKeys \ {k} : k \in BaseKeys} \cup {BaseKeys \cup OptionalKeys}

\* The descriptors: up to MaxSections sections; the options vary in the
\* first section when it is named after the application directory, the
\* only one whose options a call can read.
Descriptors ==
  UNION {{[i \in 1..n |-> Section(names[i], IF i = 1 /\ names[i] = BaseName THEN K ELSE BaseKeys)] :
            names \in [1..n -> {BaseName, "foo"}], K \in KeyChoices} : n \in 0..MaxSections}

\* An archive left by an earlier build.
StaleArchive == (<<"stale">> :> <<Ord("a")>>)

Init ==
  /\ pc = "start"
  /\ err = NoError
  /\ ini \in Descriptors
  /\ pkey \in {"None", "pkey"}
  /\ idx = 0
  /\ \E S \in {X \in SUBSET (TextFiles \cup OtherFiles) : Cardinality(X) <= MaxFiles},
        c \in Contents,
        M \in {{}, StaleMetadata} :
       /\ fs = [p \in S \cup M \cup {app_config_file} |-> InitialContent(p, c)]
       /\ dirs = DirsOf(S \cup M)
  /\ app = <<>>
  /\ tmp = <<>>
  /\ temp_files = {}
  /\ cwd \in {<<>>, (GzipName(BaseName) :> StaleArchive)}
  /\ created = <<>>
  /\ start = [fs |-> fs, dirs |-> dirs, cwd |-> cwd]

\* ---------------------------------------------------------------- actions
\* A variant that starts the call over instead of raising.
Fail_retry(t, a) ==
  /\ pc' = "start"
  /\ err' = Error(t, a)

Fail(t, a) ==
  /\ pc' = "failed"
  /\ err' = Error(t, a)

\* A variant that leaves the directory out.
makedirs_skipped(ds, d) == ds

\* os.makedirs(d) when not os.path.exists(d)
makedirs(ds, d) == ds \cup {d}

\* Lines 141-148: config.read raises DuplicateSectionError on a repeated
\* section name; otherwise METADATA is created when it does not exist.
ReadConfig ==
  /\ pc = "start"
  /\ IF \E i, j \in 1..Len(ini) : i # j /\ ini[i].name = ini[j].name
     THEN /\ Fail("DuplicateSectionError", "")
          /\ UNCHANGED <<idx, dirs>>
     ELSE /\ dirs' = makedirs(dirs, app_metadata_folder)
          /\ idx' = 1
          /\ pc' = "section"
          /\ UNCHANGED err
  /\ UNCHANGED <<ini, pkey, fs, app, tmp, temp_files, cwd, created, start>>

\* Line 150: the loop over config.sections() is exhausted.
EndOfSections ==
  /\ pc = "section"
  /\ idx > Len(ini)
  /\ pc' = "done"
  /\ UNCHANGED <<err, ini, pkey, idx, fs, dirs, app, tmp, temp_files, cwd, created, start>>

\* A variant without the assertion: every section is packaged.
AssertAppName_unchecked ==
  /\ pc = "section"
  /\ idx <= Len(ini)
  /\ pc' = "clean_metadata"
  /\ UNCHANGED <<err, ini, pkey, idx, fs, dirs, app, tmp, temp_files, cwd, created, start>>

\* Lines 151-152: assert os.path.basename(app_root) == app_name
AssertAppName ==
  /\ pc = "section"
  /\ idx <= Len(ini)
  /\ IF BaseName = ini[idx].name
     THEN pc' = "clean_metadata" /\ UNCHANGED err
     ELSE Fail("AssertionError", "")
  /\ UNCHANGED <<ini, pkey, idx, fs, dirs, app, tmp, temp_files, cwd, created, start>>

\* A variant that removes the files of METADATA and keeps its
\* subdirectories.
CleanManifestFolder_files ==
  /\ pc = "clean_metadata"
  /\ fs' = Restrict(fs, {p \in DOMAIN fs : Parent(p) # app_metadata_folder})
  /\ pc' = "clean_bytecode"
  /\ UNCHANGED <<err, ini, pkey, idx, dirs, app, tmp, temp_files, cwd, created, start>>

\* clean_manifest_folder: removes the files of METADATA and its
\* subdirectories with all they hold.
CleanManifestFolder ==
  /\ pc = "clean_metadata"
  /\ fs' = Restrict(fs, {p \in DOMAIN fs : ~IsUnder(p, app_metadata_folder)})
  /\ dirs' = {d \in dirs : ~IsUnder(d, app_metadata_folder)}
  /\ pc' = "clean_bytecode"
  /\ UNCHANGED <<err, ini, pkey, idx, app, tmp, temp_files, cwd, created, start>>

\* clean_bytecode_files
CleanBytecodeFiles ==
  /\ pc = "clean_bytecode"
  /\ fs' = Restrict(fs, clean_bytecode_files(fs, dirs))
  /\ dirs' = dirs \ RemovedDirs(dirs)
  /\ pc' = "build_app"
  /\ UNCHANGED <<err, ini, pkey, idx, app, tmp, temp_files, cwd, created, start>>

\* A variant that never raises: a uuid is minted under a key as well.
UuidRaises_never(opts, key) == FALSE

\* Lines 164-170: config[section]['uuid'] raises KeyError, which is raised
\* again only when a key is supplied.
UuidRaises(opts, key) == "uuid" \notin DOMAIN opts /\ key # "None"

\* Lines 158-189: the app dict from the descriptor section.  The first
\* option read with config[section][...] that is missing raises KeyError;
\* a missing uuid raises only when a key is supplied.
BuildApp ==
  /\ pc = "build_app"
  /\ LET opts == ini[idx].opts
         absent == {i \in 1..Len(RequiredKeys) : RequiredKeys[i] \notin DOMAIN opts}
     IN  IF UuidRaises(opts, pkey)
         THEN Fail("KeyError", "uuid") /\ UNCHANGED app
         ELSE IF absent # {}
         THEN /\ Fail("KeyError", RequiredKeys[CHOOSE i \in absent : \A j \in absent : i <= j])
              /\ UNCHANGED app
         ELSE /\ \E u \in (IF "uuid" \in DOMAIN opts THEN {opts["uuid"]} ELSE Uuid4),
                    now \in Now :
                   app' = [k \in (OptionalKeys \cap DOMAIN opts) \ {"version_patch"} |->
                             IF k = "auto_start" THEN GetBoolean(opts, k)
                             ELSE PyInt(Chars(opts[k]))]
                          @@ [name |-> ini[idx].name,
                              uuid |-> u,
                              vendor |-> opts["vendor"],
                              notes |-> opts["notes"],
                              version_major |-> PyInt(Chars(opts["version_major"])),
                              version_minor |-> PyInt(Chars(opts["version_minor"])),
                              version_patch |-> PyInt(Chars(GetOption(opts, "version_patch", "0"))),
                              firmware_major |-> PyInt(Chars(opts["firmware_major"])),
                              firmware_minor |-> PyInt(Chars(opts["firmware_minor"])),
                              restart |-> GetBoolean(opts, "restart"),
                              reboot |-> GetBoolean(opts, "reboot"),
                              date |-> now]
              /\ pc' = "build_manifest"
              /\ UNCHANGED err
  /\ UNCHANGED <<ini, pkey, idx, fs, dirs, tmp, temp_files, cwd, created, start>>

\* Lines 191-194: app['files'] = hash_dir(app_root), then the manifest is
\* written to METADATA/MANIFEST.json.
BuildManifest ==
  /\ pc = "build_manifest"
  /\ app' = ("files" :> hash_dir(fs)) @@ app
  /\ fs' = (app_manifest_file :> Encode(JsonDumps(app'))) @@ fs
  /\ pc' = "sign"
  /\ UNCHANGED <<err, ini, pkey, idx, dirs, tmp, temp_files, cwd, created, start>>

\* A variant that writes the raw digest of the manifest when unsigned.
create_signature_raw(manifest, key) ==
  IF key # "None" THEN CryptoSign(key, Encode(file_checksum(manifest)))
  ELSE Digest(manifest)

\* create_signature: the hexadecimal checksum of the manifest, encoded, is
\* signed with the key or written as it is.
create_signature(manifest, key) ==
  LET checksum == Encode(file_checksum(manifest))
  IN  IF key # "None" THEN CryptoSign(key, checksum) ELSE checksum

CreateSignature ==
  /\ pc = "sign"
  /\ fs' = (app_signature_file :> create_signature(fs[app_manifest_file], pkey)) @@ fs
  /\ pc' = "pack"
  /\ UNCHANGED <<err, ini, pkey, idx, dirs, app, tmp, temp_files, cwd, created, start>>

\* A variant that strips the carriage returns in the files themselves.
PackScan_inplace ==
  /\ pc = "pack"
  /\ cwd' = (TarName(ini[idx].name) :> <<>>) @@ cwd
  /\ fs' = [p \in DOMAIN fs |->
              IF IsScanFile(FileName(p)) /\ HasCR(fs[p]) THEN StripCR(fs[p]) ELSE fs[p]]
  /\ temp_files' = {}
  /\ pc' = "pack_add"
  /\ UNCHANGED <<err, ini, pkey, idx, dirs, app, tmp, created, start>>

\* pack_package, lines 77-81: the .tar is opened for writing and
\* scan_for_cr writes the temporary files.
PackScan ==
  /\ pc = "pack"
  /\ cwd' = (TarName(ini[idx].name) :> <<>>) @@ cwd
  /\ temp_files' = scan_for_cr(fs)
  /\ tmp' = scan_for_cr_content(fs) @@ tmp
  /\ pc' = "pack_add"
  /\ UNCHANGED <<err, ini, pkey, idx, fs, dirs, app, created, start>>

\* A variant that always adds the file itself.
Added_original(p) == fs[p]

\* The bytes tar.add stores for the file p: those of its temporary file
\* when temp_files has one, its own otherwise.
Added(p) ==
  IF \E t \in temp_files : t[1] = p
  THEN tmp[(CHOOSE t \in temp_files : t[1] = p)[2]]
  ELSE fs[p]

\* pack_package, lines 84-94: every file of the walk is added under its
\* path relative to the root.
PackAdd ==
  /\ pc = "pack_add"
  /\ cwd' = [cwd EXCEPT ![TarName(ini[idx].name)] = [p \in DOMAIN fs |-> Added(p)]]
  /\ pc' = "pack_gzip"
  /\ UNCHANGED <<err, ini, pkey, idx, fs, dirs, app, tmp, temp_files, created, start>>

\* pack_package, lines 96-102: the .tar is compressed to .tar.gz and removed.
PackGzip ==
  /\ pc = "pack_gzip"
  /\ LET tar_name == TarName(ini[idx].name)
         gzip_name == GzipName(ini[idx].name)
         written == (gzip_name :> cwd[tar_name]) @@ cwd
     IN  cwd' = Restrict(written, DOMAIN written \ {tar_name})
  /\ pc' = "pack_cleanup"
  /\ UNCHANGED <<err, ini, pkey, idx, fs, dirs, app, tmp, temp_files, created, start>>

\* A variant that leaves the temporary files behind.
PackCleanup_keep ==
  /\ pc = "pack_cleanup"
  /\ created' = Append(created, ini[idx].name)
  /\ idx' = idx + 1
  /\ pc' = "section"
  /\ UNCHANGED <<err, ini, pkey, fs, dirs, app, tmp, temp_files, cwd, start>>

\* pack_package, lines 104-106, and line 200: the temporary files are
\* removed, the package is reported and the loop goes to the next section.
PackCleanup ==
  /\ pc = "pack_cleanup"
  /\ tmp' = Restrict(tmp, DOMAIN tmp \ {t[2] : t \in temp_files})
  /\ created' = Append(created, ini[idx].name)
  /\ idx' = idx + 1
  /\ pc' = "section"
  /\ UNCHANGED <<err, ini, pkey, fs, dirs, app, temp_files, cwd, start>>

Next ==
  \/ ReadConfig
  \/ EndOfSections
  \/ AssertAppName
  \/ CleanManifestFolder
  \/ CleanBytecodeFiles
  \/ BuildApp
  \/ BuildManifest
  \/ CreateSignature
  \/ PackScan
  \/ PackAdd
  \/ PackGzip
  \/ PackCleanup

Spec == Init /\ [][Next]_vars

\* ----------------------------------------------------------- properties
\* The steps of pack_package.
PackSteps == {"pack", "pack_add", "pack_gzip", "pack_cleanup"}

\* create_signature has written SIGNATURE.DS in this call.
Signed == pc \in PackSteps \/ Len(created) > 0

\* The part of the tree in and below METADATA.
MetadataOf(files, ds) ==
  [exists |-> app_metadata_folder \in ds,
   dirs |-> {d \in ds : IsUnder(d, app_metadata_folder)},
   files |-> Restrict(files, {p \in DOMAIN files : IsUnder(p, app_metadata_folder)})]

\* The call has written neither the manifest nor the signature: each is
\* absent or is the file the call found.
NoMetadataWritten ==
  \A f \in {app_manifest_file, app_signature_file} :
    f \in DOMAIN fs => f \in DOMAIN start.fs /\ fs[f] = start.fs[f]

\* The working directory holds what the call found: no archive was
\* created or replaced.
NoArchiveWritten == cwd = start.cwd

\* C1 as stated: with no key, SIGNATURE.DS holds the raw SHA-256 digest
\* bytes of MANIFEST.json.
C1_RawDigest ==
  (Signed /\ pkey = "None") =>
     fs[app_signature_file] = Digest(fs[app_manifest_file])

\* C1: with no key, SIGNATURE.DS holds the UTF-8 encoding of the
\* hexadecimal SHA-256 digest of the bytes of MANIFEST.json as written by
\* that run.
C1_HexDigest ==
  (Signed /\ pkey = "None") =>
     fs[app_signature_file] = Encode(Hex(Digest(fs[app_manifest_file])))

C1_Witness ==
  /\ pc = "pack"
  /\ pkey = "None"
  /\ Len(fs[app_signature_file]) = 2 * Len(Digest(fs[app_manifest_file]))

\* C2 as stated: when a section name differs from the base name of the
\* app root, the call fails with METADATA neither created, emptied nor
\* written, wherever the section stands in the descriptor.
C2_Untouched ==
  (pc = "failed" /\ err.type = "AssertionError") =>
     MetadataOf(fs, dirs) = MetadataOf(start.fs, start.dirs)

\* C2: when the first section's name differs from the base name of the app
\* root, the call fails before METADATA is emptied or written: at the
\* failure the folder exists, created empty when it was absent, and holds
\* exactly the directories and files it held before the call.
C2_FirstSection ==
  (pc = "failed" /\ err.type = "AssertionError" /\ idx = 1) =>
     /\ MetadataOf(fs, dirs).exists
     /\ MetadataOf(fs, dirs).dirs = MetadataOf(start.fs, start.dirs).dirs
     /\ MetadataOf(fs, dirs).files = MetadataOf(start.fs, start.dirs).files

C2_Witness ==
  /\ pc = "failed"
  /\ err.type = "AssertionError"
  /\ idx = 1
  /\ ~MetadataOf(start.fs, start.dirs).exists
  /\ MetadataOf(fs, dirs).exists

\* C3: when a section has no uuid and a key is supplied, the call does not
\* complete, and it writes no MANIFEST.json, no SIGNATURE.DS and no archive:
\* an <app_name>.tar.gz that existed is unchanged and none is created.
C3_NoUuidUnderKey ==
  (pkey # "None" /\ \E i \in 1..Len(ini) : "uuid" \notin DOMAIN ini[i].opts) =>
     /\ pc # "done"
     /\ created = <<>>
     /\ NoMetadataWritten
     /\ NoArchiveWritten

C3_Witness ==
  /\ pc = "failed"
  /\ err = Error("KeyError", "uuid")
  /\ pkey # "None"
  /\ GzipName(BaseName) \in DOMAIN cwd
  /\ cwd[GzipName(BaseName)] = StaleArchive

\* The descriptor fields the specification lists as required, besides uuid.
RequiredFields == {RequiredKeys[i] : i \in 1..Len(RequiredKeys)} \cup BoolKeys

\* C4: a section that lacks one of vendor, notes, version_major,
\* version_minor, firmware_major, firmware_minor, restart, reboot makes the
\* call fail: it does not complete and writes no manifest, no signature and
\* no archive.
C4_MissingFieldFatal ==
  \A i \in 1..Len(ini) :
    (\E k \in RequiredFields : k \notin DOMAIN ini[i].opts) =>
       /\ pc # "done"
       /\ created = <<>>
       /\ NoMetadataWritten
       /\ NoArchiveWritten

\* A name with a compiled extension: .pyc, .pyo or .pyd.
IsCompiledName(x) ==
  \E ext \in {<<".", "p", "y", "c">>, <<".", "p", "y", "o">>, <<".", "p", "y", "d">>} :
    EndsWith(Chars(x), ext)

\* The steps of a run after clean_bytecode_files.
AfterCleanBytecode == {"build_app", "build_manifest", "sign"} \cup PackSteps

\* C5: after the byte code is cleaned, the tree holds no file named *.pyc,
\* *.pyo or *.pyd and no __pycache__ directory.
C5_NoBytecodeLeft ==
  pc \in AfterCleanBytecode =>
     /\ \A p \in DOMAIN fs : ~IsCompiledName(FileName(p))
     /\ \A d \in dirs : \A i \in 1..Len(d) : d[i] # "__pycache__"

\* C6: the mapping of hash_dir has an entry for exactly the files whose
\* name does not start with a dot and that lie, at any depth, beneath no
\* directory whose name starts with a dot.
C6_HiddenSkipped ==
  pc = "sign" =>
     DOMAIN app["files"] =
       {p \in DOMAIN fs \ {app_manifest_file} :
          \A i \in 1..Len(p) : Chars(p[i])[1] # "."}

\* The archive the run of the application's section produced.
Archive == cwd[GzipName(BaseName)]

\* pack_package has written the archive of this call.
Packed == pc = "pack_cleanup" \/ Len(created) > 0

\* A name with a scanned extension: .py or .sh.
HasScannedExtension(x) ==
  \E ext \in {<<".", "p", "y">>, <<".", "s", "h">>} : EndsWith(Chars(x), ext)

\* C7: the archive entry under the path of each file of the tree holds the
\* file's bytes without the carriage returns when the file has a scanned
\* extension, and the file's bytes otherwise; no entry with a scanned
\* extension holds a carriage return.
C7_ArchivedBytes ==
  Packed =>
     /\ \A p \in DOMAIN fs :
          /\ p \in DOMAIN Archive
          /\ Archive[p] = IF HasScannedExtension(FileName(p))
                          THEN SelectSeq(fs[p], LAMBDA b : b # 13)
                          ELSE fs[p]
     /\ \A q \in DOMAIN Archive :
          HasScannedExtension(FileName(q)) => \A i \in 1..Len(Archive[q]) : Archive[q][i] # 13

C7_Witness ==
  /\ Packed
  /\ \E p \in DOMAIN fs :
       /\ HasScannedExtension(FileName(p))
       /\ \E i \in 1..Len(fs[p]) : fs[p][i] = 13
       /\ Len(Archive[p]) < Len(fs[p])
  /\ Archive[app_config_file] = fs[app_config_file]

\* The names of the sections of the descriptor, in order.
SectionNames == [i \in 1..Len(ini) |-> ini[i].name]

\* Every section holds every option and no name is repeated.
WellFormed ==
  /\ \A i \in 1..Len(ini) : BaseKeys \subseteq DOMAIN ini[i].opts
  /\ \A i, j \in 1..Len(ini) : i # j => ini[i].name # ini[j].name

\* C8 as stated: a descriptor with N sections ends with N complete runs,
\* one for each section in order; here for the descriptors whose first
\* section is named after the app root.
C8_AllSectionsRun ==
  (pc \in {"done", "failed"} /\ WellFormed /\ Len(ini) > 0 /\ ini[1].name = BaseName) =>
     created = SectionNames

\* C8: the sections are processed in order, each as a complete run that
\* leaves its <section>.tar.gz, up to the first section whose name differs
\* from the base name of the app root, where the call fails with
\* AssertionError; at most one section, named after the app root, is packaged.
C8_RunsUntilMismatch ==
  /\ Len(created) <= 1
  /\ \A i \in 1..Len(created) :
       /\ created[i] = ini[i].name
       /\ created[i] = BaseName
       /\ GzipName(created[i]) \in DOMAIN cwd
       /\ app_manifest_file \in DOMAIN cwd[GzipName(created[i])]
  /\ (pc = "failed" /\ err.type = "AssertionError") =>
       /\ ini[idx].name # BaseName
       /\ created = SubSeq(SectionNames, 1, idx - 1)
  /\ pc = "done" => created = SectionNames

C8_Witness ==
  /\ pc = "failed"
  /\ err.type = "AssertionError"
  /\ Len(ini) = 2
  /\ WellFormed
  /\ created = <<BaseName>>

\* A file that clean_bytecode_files may remove: a compiled file or a file
\* beneath a __pycache__ directory.
IsBytecodeArtifact(p) ==
  \/ IsCompiledName(FileName(p))
  \/ \E i \in 1..(Len(p) - 1) : p[i] = "__pycache__"

\* C9: every file the call found outside METADATA that is no byte-code
\* artifact is still there with the bytes it had.
C9_SourcesUnchanged ==
  \A p \in DOMAIN start.fs :
    (~IsUnder(p, app_metadata_folder) /\ ~IsBytecodeArtifact(p)) =>
       p \in DOMAIN fs /\ fs[p] = start.fs[p]

C9_Witness ==
  /\ pc = "done"
  /\ Len(created) = 1
  /\ \E p \in DOMAIN start.fs :
       /\ p \in DOMAIN Archive
       /\ Archive[p] # start.fs[p]
       /\ fs[p] = start.fs[p]

\* The steps of one run in their order, and the step after each.
StepAfter ==
  [clean_metadata |-> "clean_bytecode",
   clean_bytecode |-> "build_app",
   build_app |-> "build_manifest",
   build_manifest |-> "sign",
   sign |-> "pack",
   pack |-> "pack_add",
   pack_add |-> "pack_gzip",
   pack_gzip |-> "pack_cleanup",
   pack_cleanup |-> "section"]

\* One step of the call keeps the order of a run.
StepOrder ==
  /\ pc \in DOMAIN StepAfter => pc' \in {StepAfter[pc], "failed"}
  /\ pc = "section" => pc' \in {"clean_metadata", "done", "failed"}
  /\ pc' = "clean_metadata" => pc = "section"
  /\ pc \in {"done", "failed"} => pc' = pc
  /\ MetadataOf(fs', dirs') # MetadataOf(fs, dirs) =>
       pc \in {"start", "clean_metadata", "build_manifest", "sign"}
  /\ (app_manifest_file \in DOMAIN fs' /\ pc' = "sign") => pc = "build_manifest"
  /\ (app_signature_file \in DOMAIN fs' /\ app_signature_file \notin DOMAIN fs) => pc = "sign"
  /\ cwd' # cwd => pc \in PackSteps
  /\ created' # created => pc = "pack_cleanup" /\ pc' = "section"
  /\ err' # err => err = NoError /\ pc' = "failed"
  /\ pc' = "failed" => err' # NoError
  /\ pc' = "done" => created' = SectionNames

\* C10: within a run the steps follow the order clean METADATA, clean byte
\* code, build manifest, sign, pack, done, each after the one before; a
\* failure ends the call with its error and nothing is executed after it.
C10_StepOrder == [][StepOrder]_vars

C10_Witness ==
  /\ pc = "failed"
  /\ err = Error("KeyError", "vendor")
  /\ app_metadata_folder \in dirs
  /\ MetadataOf(fs, dirs).files = <<>>
  /\ MetadataOf(start.fs, start.dirs).files # <<>>
  /\ NoArchiveWritten

\* METADATA exists and holds no file and no directory.
EmptyMetadata == [exists |-> TRUE, dirs |-> {}, files |-> <<>>]

\* C11: from the emptying of METADATA to the writing of the manifest the
\* folder holds nothing; when MANIFEST.json has been written it is the only
\* thing in the folder and is not the file found before the run; once
\* SIGNATURE.DS is written, and after a successful run, METADATA holds
\* exactly MANIFEST.json and SIGNATURE.DS and no directory.
C11_EmptyBeforePopulation ==
  /\ pc \in {"clean_bytecode", "build_app", "build_manifest"} =>
       MetadataOf(fs, dirs) = EmptyMetadata
  /\ pc = "sign" =>
       /\ MetadataOf(fs, dirs).exists
       /\ MetadataOf(fs, dirs).dirs = {}
       /\ DOMAIN MetadataOf(fs, dirs).files = {app_manifest_file}
       /\ app_manifest_file \in DOMAIN start.fs =>
            fs[app_manifest_file] # start.fs[app_manifest_file]
  /\ Signed =>
       /\ MetadataOf(fs, dirs).exists
       /\ MetadataOf(fs, dirs).dirs = {}
       /\ DOMAIN MetadataOf(fs, dirs).files = {app_manifest_file, app_signature_file}

C11_Witness ==
  /\ pc = "done"
  /\ created = <<BaseName>>
  /\ MetadataOf(start.fs, start.dirs).dirs # {}
  /\ app_manifest_file \in DOMAIN start.fs
  /\ DOMAIN MetadataOf(fs, dirs).files = {app_manifest_file, app_signature_file}

\* C12: after pack_package has returned, none of the temporary files that
\* scan_for_cr created is left, <app_name>.tar is gone from the working
\* directory and <app_name>.tar.gz is there.
C12_NoIntermediateLeft ==
  \A i \in 1..Len(created) :
    /\ \A t \in temp_files : t[2] \notin DOMAIN tmp
    /\ DOMAIN tmp = {}
    /\ TarName(created[i]) \notin DOMAIN cwd
    /\ GzipName(created[i]) \in DOMAIN cwd

C12_Witness ==
  /\ Len(created) = 1
  /\ temp_files # {}
  /\ \A t \in temp_files : t[2] \notin DOMAIN tmp
  /\ TarName(BaseName) \notin DOMAIN cwd
  /\ GzipName(BaseName) \notin DOMAIN start.cwd
  /\ GzipName(BaseName) \in DOMAIN cwd

\* C13: after a successful run the digest the manifest records for each
\* path of its files mapping is the digest of the bytes the archive holds
\* under that path.
C13_ManifestDigestsShipped ==
  Len(created) > 0 =>
     \A p \in DOMAIN app["files"] :
       /\ p \in DOMAIN Archive
       /\ app["files"][p] = file_checksum(Archive[p])

\* C14: after a successful run the paths of the manifest's files mapping
\* are the names of the archive entries outside METADATA.
C14_ManifestListsArchive ==
  Len(created) > 0 =>
     DOMAIN app["files"] = {p \in DOMAIN Archive : ~IsUnder(p, app_metadata_folder)}

====
